---- MODULE Spec2Model ----
(***************************************************************************)
(* Model of the leaderboard API (src/app.py) over the loyalty-points       *)
(* schema (src/models.py).                                                 *)
(*                                                                         *)
(* Units.  Instants are integers counting minutes; MinDate and MaxDate     *)
(* stand for datetime.min and datetime.max.  Stored points are counted in  *)
(* quarters of a point (exact binary floats), response points in tenths.   *)
(* A nullable column holds <<>> for NULL and <<v>> for the value v.        *)
(***************************************************************************)
EXTENDS Integers, Sequences, FiniteSets, TLC

VARIABLES users, memberships, inventory_items, control_relationships,
          transactions, buyer_immunity,
          clock, db,
          pc, endpoint, arg, session, nacq, nquery, exc,
          minutes, now, recent_time, snap, top_users, resp,
          last

store == <<users, memberships, inventory_items, control_relationships,
           transactions, buyer_immunity>>
deps == <<memberships, inventory_items, control_relationships,
          transactions, buyer_immunity>>
locals == <<pc, endpoint, arg, session, nacq, nquery, exc,
            minutes, now, recent_time, snap, top_users, resp>>
vars == <<users, memberships, inventory_items, control_relationships,
          transactions, buyer_immunity, clock, db,
          pc, endpoint, arg, session, nacq, nquery, exc,
          minutes, now, recent_time, snap, top_users, resp, last>>

(* ------------------------------ bounds --------------------------------- *)
BulkN == 25
NReq == 2
MaxTick == 1
StartTime == 40
HugeMinutes == 200
NSchemaUsers == 2
MaxRows == 2

(* ------------------------- program constants --------------------------- *)
DefaultMinutes == 30
TopLimit == 25
MinDate == 0
MaxDate == 100

(* ------------------------- nullable columns ---------------------------- *)
NULL == <<>>
IsNull(x) == x = <<>>
Val(x) == x[1]

(* --------------------------- the users table --------------------------- *)
FreeId == BulkN + 1
Reqs == 1..NReq

Username(id) == 100 + id

BulkRow(id) ==
    [id |-> id, username |-> Username(id), points |-> <<4 + id>>,
     is_eliminated |-> <<FALSE>>, updated_at |-> <<StartTime>>]

FreePoints == {NULL, <<-3>>, <<5>>, <<6>>, <<4 * BulkN + 4>>}
FreeElim == {NULL, <<FALSE>>, <<TRUE>>}
FreeUpdated == {NULL, <<StartTime - DefaultMinutes>>, <<StartTime>>}

ConcRows ==
    [id : {FreeId}, username : {Username(FreeId)}, points : {NULL, <<5>>},
     is_eliminated : {<<FALSE>>}, updated_at : {<<StartTime>>}]

FreeRows ==
    [id : {FreeId}, username : {Username(FreeId)}, points : FreePoints,
     is_eliminated : FreeElim, updated_at : FreeUpdated]

UserTable(n, row) ==
    [id \in (1..n) \cup {FreeId} |-> IF id = FreeId THEN row ELSE BulkRow(id)]

(* ------------------------- the leaderboard query ----------------------- *)
\* Faulty variant: the filter without the is_eliminated condition.
MatchesNoElim(row, cutoff) ==
    /\ ~IsNull(row.updated_at)
    /\ Val(row.updated_at) >= cutoff

\* WHERE updated_at >= :recent_time AND is_eliminated = false; a NULL
\* operand makes the comparison unknown and the row is not selected.
Matches(row, cutoff) ==
    /\ ~IsNull(row.updated_at)
    /\ Val(row.updated_at) >= cutoff
    /\ ~IsNull(row.is_eliminated)
    /\ Val(row.is_eliminated) = FALSE

Eligible(tbl, cutoff) == {id \in DOMAIN tbl : Matches(tbl[id], cutoff)}

\* Faulty variant: ORDER BY points ascending.
BeforeAsc(a, b, asc) ==
    IF IsNull(a.points) /\ IsNull(b.points)
    THEN (IF asc THEN a.id < b.id ELSE a.id > b.id)
    ELSE IF IsNull(a.points) THEN FALSE
    ELSE IF IsNull(b.points) THEN TRUE
    ELSE IF Val(a.points) # Val(b.points) THEN Val(a.points) < Val(b.points)
    ELSE (IF asc THEN a.id < b.id ELSE a.id > b.id)

\* ORDER BY points DESC: PostgreSQL puts NULL first in a descending order;
\* rows with equal points come in an order the query does not fix (asc
\* chooses between the two storage orders modelled).
Before(a, b, asc) ==
    IF IsNull(a.points) /\ IsNull(b.points)
    THEN (IF asc THEN a.id < b.id ELSE a.id > b.id)
    ELSE IF IsNull(a.points) THEN TRUE
    ELSE IF IsNull(b.points) THEN FALSE
    ELSE IF Val(a.points) # Val(b.points) THEN Val(a.points) > Val(b.points)
    ELSE (IF asc THEN a.id < b.id ELSE a.id > b.id)

First(tbl, S, asc) ==
    CHOOSE id \in S : \A o \in S \ {id} : Before(tbl[id], tbl[o], asc)

RECURSIVE OrderByLimit(_, _, _, _)
OrderByLimit(tbl, S, asc, k) ==
    IF S = {} \/ k = 0 THEN <<>>
    ELSE LET f == First(tbl, S, asc)
         IN <<tbl[f]>> \o OrderByLimit(tbl, S \ {f}, asc, k - 1)

\* Faulty variant: the limit one short.
QueryShort(tbl, cutoff, asc) ==
    OrderByLimit(tbl, Eligible(tbl, cutoff), asc, TopLimit - 1)

Query(tbl, cutoff, asc) ==
    OrderByLimit(tbl, Eligible(tbl, cutoff), asc, TopLimit)

(* ------------------------- response formatting ------------------------- *)
\* round(x, 1) of x = q/4: the result in tenths, half to even.
Round1(q) ==
    LET h == 5 * q
        k == (h - 1) \div 2
    IN IF h % 2 = 0 THEN h \div 2
       ELSE IF k % 2 = 0 THEN k ELSE k + 1

\* request.args.get('minutes', 30, type=int)
ArgAbsent == [kind |-> "absent", v |-> 0]
ArgText == [kind |-> "text", v |-> 0]
ArgInt(n) == [kind |-> "int", v |-> n]
Args == {ArgAbsent, ArgText} \cup {ArgInt(n) : n \in {-1, 0, HugeMinutes, -HugeMinutes}}

ParseMinutes(a) == IF a.kind = "int" THEN a.v ELSE DefaultMinutes

DateOverflow(t) == t < MinDate \/ t > MaxDate

Leaderboard(rows) ==
    [i \in 1..Len(rows) |->
        [position |-> i, username |-> rows[i].username,
         points |-> Round1(Val(rows[i].points))]]

FormatFails(rows) == \E i \in 1..Len(rows) : IsNull(rows[i].points)

\* Faulty variant: len(top_users) >= 0.
StatusAlwaysActive(rows) == IF Len(rows) >= 0 THEN "active" ELSE "inactive"

StatusOf(rows) == IF Len(rows) > 0 THEN "active" ELSE "inactive"

NoResp == [code |-> 0, body |-> [none |-> TRUE]]
OkResp(rows, t) ==
    [code |-> 200,
     body |-> [status |-> StatusOf(rows), users |-> Leaderboard(rows),
               timestamp |-> t]]
\* Faulty variant: the error body returned without the 500 status code.
ErrResp200(e) == [code |-> 200, body |-> [error |-> e]]

ErrResp(e) == [code |-> 500, body |-> [error |-> e]]
StatusResp(t) == [code |-> 200, body |-> [status |-> "online", timestamp |-> t]]
TestResp(t) ==
    [code |-> 200, body |-> [message |-> "API is working", timestamp |-> t]]

(* ------------------------------- Init ---------------------------------- *)
InitLocals ==
    /\ pc = [r \in Reqs |-> "idle"]
    /\ endpoint = [r \in Reqs |-> "none"]
    /\ arg = [r \in Reqs |-> ArgAbsent]
    /\ nquery = [r \in Reqs |-> 0]
    /\ exc = [r \in Reqs |-> "none"]
    /\ session = [r \in Reqs |-> "unbound"]
    /\ nacq = [r \in Reqs |-> 0]
    /\ minutes = [r \in Reqs |-> 0]
    /\ now = [r \in Reqs |-> 0]
    /\ recent_time = [r \in Reqs |-> 0]
    /\ snap = [r \in Reqs |-> <<>>]
    /\ top_users = [r \in Reqs |-> <<>>]
    /\ resp = [r \in Reqs |-> NoResp]

NoDeps ==
    /\ memberships = {}
    /\ inventory_items = {}
    /\ control_relationships = {}
    /\ transactions = {}
    /\ buyer_immunity = {}

Init ==
    /\ \E n \in {0, BulkN}, row \in FreeRows : users = UserTable(n, row)
    /\ NoDeps
    /\ clock = StartTime
    /\ db \in {"up", "down", "badcfg"}
    /\ InitLocals
    /\ last = [op |-> "init"]

InitConc ==
    /\ \E row \in ConcRows : users = UserTable(0, row)
    /\ NoDeps
    /\ clock = StartTime
    /\ db \in {"up", "down", "badcfg"}
    /\ InitLocals
    /\ last = [op |-> "init"]

(* --------------------------- environment ------------------------------- *)
Tick ==
    /\ clock < StartTime + MaxTick
    /\ clock' = clock + 1
    /\ UNCHANGED <<store, db, locals, last>>

SetDb ==
    /\ \E v \in {"up", "down", "badcfg"} : v # db /\ db' = v
    /\ UNCHANGED <<store, clock, locals, last>>

\* A writer outside this repository changes a user row: points takes the
\* new value and updated_at is set by onupdate=datetime.utcnow.
UpdateUser(P) ==
    /\ \E p \in P :
         /\ p # users[FreeId].points
         /\ users' = [users EXCEPT ![FreeId].points = p,
                                   ![FreeId].updated_at = <<clock>>]
    /\ UNCHANGED <<deps, clock, db, locals, last>>

(* ------------------------- get_leaderboard ----------------------------- *)
\* session = get_db_connection(): create_engine raises on a configuration
\* it cannot use; otherwise a session is bound (no connection is made yet).
Acquire(r, A) ==
    /\ pc[r] = "idle"
    /\ endpoint' = [endpoint EXCEPT ![r] = "leaderboard"]
    /\ \E a \in A : arg' = [arg EXCEPT ![r] = a]
    /\ IF db = "badcfg"
       THEN /\ pc' = [pc EXCEPT ![r] = "except"]
            /\ exc' = [exc EXCEPT ![r] = "ArgumentError"]
            /\ UNCHANGED <<session, nacq>>
       ELSE /\ pc' = [pc EXCEPT ![r] = "acquired"]
            /\ session' = [session EXCEPT ![r] = "open"]
            /\ nacq' = [nacq EXCEPT ![r] = @ + 1]
            /\ UNCHANGED exc
    /\ UNCHANGED <<store, clock, db, nquery, minutes, now, recent_time, snap,
                   top_users, resp, last>>

\* minutes = request.args.get(...); recent_time = utcnow() - timedelta(...)
Cutoff(r) ==
    /\ pc[r] = "acquired"
    /\ LET m == ParseMinutes(arg[r])
       IN /\ minutes' = [minutes EXCEPT ![r] = m]
          /\ now' = [now EXCEPT ![r] = clock]
          /\ IF DateOverflow(clock - m)
             THEN /\ pc' = [pc EXCEPT ![r] = "except"]
                  /\ exc' = [exc EXCEPT ![r] = "OverflowError"]
                  /\ UNCHANGED recent_time
             ELSE /\ pc' = [pc EXCEPT ![r] = "cutoff"]
                  /\ recent_time' = [recent_time EXCEPT ![r] = clock - m]
                  /\ UNCHANGED exc
    /\ UNCHANGED <<store, clock, db, endpoint, arg, session, nacq, nquery,
                   snap, top_users, resp, last>>

\* Faulty variant: the query step also writes the rows it read (updated_at is set
\* by onupdate).
RunQueryTouch(r) ==
    /\ pc[r] = "cutoff"
    /\ nquery' = [nquery EXCEPT ![r] = @ + 1]
    /\ IF db = "up"
       THEN /\ \E asc \in BOOLEAN :
                 top_users' = [top_users EXCEPT
                                  ![r] = Query(users, recent_time[r], asc)]
            /\ snap' = [snap EXCEPT ![r] = users]
            /\ users' = [id \in DOMAIN users |->
                            IF Matches(users[id], recent_time[r])
                            THEN [users[id] EXCEPT !.updated_at = <<clock>>]
                            ELSE users[id]]
            /\ pc' = [pc EXCEPT ![r] = "queried"]
            /\ UNCHANGED exc
       ELSE /\ pc' = [pc EXCEPT ![r] = "except"]
            /\ exc' = [exc EXCEPT ![r] = "OperationalError"]
            /\ UNCHANGED <<top_users, snap, users>>
    /\ UNCHANGED <<deps, clock, db, endpoint, arg, session, nacq, minutes,
                   now, recent_time, resp, last>>

\* top_users = session.query(User).filter(...).order_by(...).limit(25).all()
RunQuery(r) ==
    /\ pc[r] = "cutoff"
    /\ nquery' = [nquery EXCEPT ![r] = @ + 1]
    /\ IF db = "up"
       THEN /\ \E asc \in BOOLEAN :
                 top_users' = [top_users EXCEPT
                                  ![r] = Query(users, recent_time[r], asc)]
            /\ snap' = [snap EXCEPT ![r] = users]
            /\ pc' = [pc EXCEPT ![r] = "queried"]
            /\ UNCHANGED exc
       ELSE /\ pc' = [pc EXCEPT ![r] = "except"]
            /\ exc' = [exc EXCEPT ![r] = "OperationalError"]
            /\ UNCHANGED <<top_users, snap>>
    /\ UNCHANGED <<store, clock, db, endpoint, arg, session, nacq, minutes,
                   now, recent_time, resp, last>>

\* leaderboard = [...]; status = ...; return jsonify({...})
Format(r) ==
    /\ pc[r] = "queried"
    /\ IF FormatFails(top_users[r])
       THEN /\ pc' = [pc EXCEPT ![r] = "except"]
            /\ exc' = [exc EXCEPT ![r] = "TypeError"]
            /\ UNCHANGED resp
       ELSE /\ pc' = [pc EXCEPT ![r] = "finally"]
            /\ resp' = [resp EXCEPT ![r] = OkResp(top_users[r], clock)]
            /\ UNCHANGED exc
    /\ UNCHANGED <<store, clock, db, endpoint, arg, session, nacq, nquery,
                   minutes, now, recent_time, snap, top_users, last>>

\* except Exception as e: return jsonify({"error": str(e)}), 500
Except(r) ==
    /\ pc[r] = "except"
    /\ resp' = [resp EXCEPT ![r] = ErrResp(exc[r])]
    /\ pc' = [pc EXCEPT ![r] = "finally"]
    /\ UNCHANGED <<store, clock, db, endpoint, arg, session, nacq, nquery,
                   exc, minutes, now, recent_time, snap, top_users, last>>

\* Faulty variant: session.close() at the end of the try body instead of finally.
FinallyLeak(r) ==
    /\ pc[r] = "finally"
    /\ session' = [session EXCEPT
                      ![r] = IF @ = "open" /\ exc[r] = "none"
                             THEN "closed" ELSE @]
    /\ pc' = [pc EXCEPT ![r] = "done"]
    /\ UNCHANGED <<store, clock, db, endpoint, arg, nacq, nquery, exc,
                   minutes, now, recent_time, snap, top_users, resp, last>>

\* finally: if 'session' in locals(): session.close()
Finally(r) ==
    /\ pc[r] = "finally"
    /\ session' = [session EXCEPT
                      ![r] = IF @ = "unbound" THEN "unbound" ELSE "closed"]
    /\ pc' = [pc EXCEPT ![r] = "done"]
    /\ UNCHANGED <<store, clock, db, endpoint, arg, nacq, nquery, exc,
                   minutes, now, recent_time, snap, top_users, resp, last>>

(* ------------------------- get_status, test ---------------------------- *)
GetStatus(r) ==
    /\ pc[r] = "idle"
    /\ endpoint' = [endpoint EXCEPT ![r] = "status"]
    /\ resp' = [resp EXCEPT ![r] = StatusResp(clock)]
    /\ pc' = [pc EXCEPT ![r] = "done"]
    /\ UNCHANGED <<store, clock, db, arg, session, nacq, nquery, exc,
                   minutes, now, recent_time, snap, top_users, last>>

Test(r) ==
    /\ pc[r] = "idle"
    /\ endpoint' = [endpoint EXCEPT ![r] = "test"]
    /\ resp' = [resp EXCEPT ![r] = TestResp(clock)]
    /\ pc' = [pc EXCEPT ![r] = "done"]
    /\ UNCHANGED <<store, clock, db, arg, session, nacq, nquery, exc,
                   minutes, now, recent_time, snap, top_users, last>>

\* The worker takes the next request.
NewRequest(r) ==
    /\ pc[r] = "done"
    /\ pc' = [pc EXCEPT ![r] = "idle"]
    /\ endpoint' = [endpoint EXCEPT ![r] = "none"]
    /\ arg' = [arg EXCEPT ![r] = ArgAbsent]
    /\ session' = [session EXCEPT ![r] = "unbound"]
    /\ nacq' = [nacq EXCEPT ![r] = 0]
    /\ nquery' = [nquery EXCEPT ![r] = 0]
    /\ exc' = [exc EXCEPT ![r] = "none"]
    /\ minutes' = [minutes EXCEPT ![r] = 0]
    /\ now' = [now EXCEPT ![r] = 0]
    /\ recent_time' = [recent_time EXCEPT ![r] = 0]
    /\ snap' = [snap EXCEPT ![r] = <<>>]
    /\ top_users' = [top_users EXCEPT ![r] = <<>>]
    /\ resp' = [resp EXCEPT ![r] = NoResp]
    /\ UNCHANGED <<store, clock, db, last>>

Handler(r, A) ==
    \/ Acquire(r, A)
    \/ Cutoff(r)
    \/ RunQuery(r)
    \/ Format(r)
    \/ Except(r)
    \/ Finally(r)
    \/ GetStatus(r)
    \/ Test(r)
    \/ NewRequest(r)

Next ==
    \/ Tick
    \/ SetDb
    \/ UpdateUser({<<6>>, <<4 * BulkN + 4>>})
    \/ \E r \in {1} : Handler(r, Args)

Spec == Init /\ [][Next]_vars

ConcArgs == {ArgAbsent, ArgInt(HugeMinutes)}

NextConc ==
    \/ SetDb
    \/ UpdateUser({NULL, <<5>>})
    \/ \E r \in Reqs : Handler(r, ConcArgs)

SpecConc == InitConc /\ [][NextConc]_vars

(* ------------------------------ the schema ----------------------------- *)
\* Rows of the dependent tables, by their key columns:
\*   memberships            user_id                      (primary key)
\*   control_relationships  <<controller_id, target_id>> (primary key)
\*   inventory_items        [id, user_id, item_type]     (primary key id)
\*   transactions           [id, user_id]                (primary key id)
\*   buyer_immunity         <<target_id, buyer_id>>      (primary key)
SchemaIds == 1..NSchemaUsers
RowIds == 1..MaxRows
ItemTypes == {"shield"}

\* User(id=..., username=...) with the column defaults.
NewUser(id, t) ==
    [id |-> id, username |-> Username(id), points |-> <<0>>,
     is_eliminated |-> <<FALSE>>, updated_at |-> <<t>>]

NumRows ==
    Cardinality(memberships) + Cardinality(inventory_items)
    + Cardinality(control_relationships) + Cardinality(transactions)
    + Cardinality(buyer_immunity)

Exists(id) == id \in DOMAIN users

\* The dependent rows that reference user id through a foreign key.
HasDeps(id) ==
    [membership |-> id \in memberships,
     inventory |-> \E i \in inventory_items : i.user_id = id,
     controller |-> \E c \in control_relationships : c[1] = id,
     target |-> \E c \in control_relationships : c[2] = id,
     tx |-> \E x \in transactions : x.user_id = id,
     immune |-> \E b \in buyer_immunity : b[1] = id,
     buyer |-> \E b \in buyer_immunity : b[2] = id]

InitSchema ==
    /\ users = << >>
    /\ NoDeps
    /\ clock = StartTime
    /\ db = "up"
    /\ InitLocals
    /\ last = [op |-> "init"]

InsertUser(id) ==
    /\ IF Exists(id)
       THEN /\ UNCHANGED users
            /\ last' = [op |-> "insert_user", ok |-> FALSE, id |-> id]
       ELSE /\ users' = [u \in DOMAIN users \cup {id} |->
                            IF u = id THEN NewUser(id, clock) ELSE users[u]]
            /\ last' = [op |-> "insert_user", ok |-> TRUE, id |-> id]
    /\ UNCHANGED <<deps, clock, db, locals>>

\* DELETE of a users row: every foreign key on users.id is ON DELETE
\* CASCADE, and the relationships of User cascade "all, delete-orphan".
CascadeMemberships(id) == memberships \ {id}
CascadeInventory(id) == {i \in inventory_items : i.user_id # id}
\* Faulty variant: only the controller side cascades.
CascadeControllerOnly(id) == {c \in control_relationships : c[1] # id}

CascadeControl(id) ==
    {c \in control_relationships : c[1] # id /\ c[2] # id}
CascadeTransactions(id) == {x \in transactions : x.user_id # id}
CascadeImmunity(id) == {b \in buyer_immunity : b[1] # id /\ b[2] # id}

DeleteUser(id) ==
    /\ Exists(id)
    /\ users' = [u \in DOMAIN users \ {id} |-> users[u]]
    /\ memberships' = CascadeMemberships(id)
    /\ inventory_items' = CascadeInventory(id)
    /\ control_relationships' = CascadeControl(id)
    /\ transactions' = CascadeTransactions(id)
    /\ buyer_immunity' = CascadeImmunity(id)
    /\ last' = [op |-> "delete_user", ok |-> TRUE, id |-> id,
                had |-> HasDeps(id)]
    /\ UNCHANGED <<clock, db, locals>>

MembershipAccepted(uid) == Exists(uid) /\ uid \notin memberships

InsertMembership(uid) ==
    /\ NumRows < MaxRows
    /\ IF MembershipAccepted(uid)
       THEN /\ memberships' = memberships \cup {uid}
            /\ last' = [op |-> "insert_membership", ok |-> TRUE, id |-> uid]
       ELSE /\ UNCHANGED memberships
            /\ last' = [op |-> "insert_membership", ok |-> FALSE, id |-> uid]
    /\ UNCHANGED <<users, inventory_items, control_relationships,
                   transactions, buyer_immunity, clock, db, locals>>

DeleteMembership(uid) ==
    /\ uid \in memberships
    /\ memberships' = memberships \ {uid}
    /\ last' = [op |-> "delete_membership", ok |-> TRUE, id |-> uid]
    /\ UNCHANGED <<users, inventory_items, control_relationships,
                   transactions, buyer_immunity, clock, db, locals>>

\* Faulty variant: the table without UniqueConstraint('target_id').
ControlAcceptedPK(c, t) ==
    /\ Exists(c)
    /\ Exists(t)
    /\ <<c, t>> \notin control_relationships

\* Primary key (controller_id, target_id), both foreign keys to users.id,
\* and UniqueConstraint('target_id', name='unique_target').
ControlAccepted(c, t) ==
    /\ Exists(c)
    /\ Exists(t)
    /\ <<c, t>> \notin control_relationships
    /\ \A e \in control_relationships : e[2] # t

InsertControl(c, t) ==
    /\ NumRows < MaxRows
    /\ IF ControlAccepted(c, t)
       THEN /\ control_relationships' = control_relationships \cup {<<c, t>>}
            /\ last' = [op |-> "insert_control", ok |-> TRUE,
                        controller |-> c, target |-> t]
       ELSE /\ UNCHANGED control_relationships
            /\ last' = [op |-> "insert_control", ok |-> FALSE,
                        controller |-> c, target |-> t]
    /\ UNCHANGED <<users, memberships, inventory_items, transactions,
                   buyer_immunity, clock, db, locals>>

DeleteControl(c, t) ==
    /\ <<c, t>> \in control_relationships
    /\ control_relationships' = control_relationships \ {<<c, t>>}
    /\ last' = [op |-> "delete_control", ok |-> TRUE,
                controller |-> c, target |-> t]
    /\ UNCHANGED <<users, memberships, inventory_items, transactions,
                   buyer_immunity, clock, db, locals>>

\* Primary key id, foreign key user_id, and
\* UniqueConstraint('user_id', 'item_type', name='unique_user_item').
InventoryAccepted(id, uid, ty) ==
    /\ Exists(uid)
    /\ \A i \in inventory_items :
          i.id # id /\ ~(i.user_id = uid /\ i.item_type = ty)

InsertInventory(id, uid, ty) ==
    /\ NumRows < MaxRows
    /\ IF InventoryAccepted(id, uid, ty)
       THEN /\ inventory_items' = inventory_items \cup
                   {[id |-> id, user_id |-> uid, item_type |-> ty]}
            /\ last' = [op |-> "insert_inventory", ok |-> TRUE, id |-> uid]
       ELSE /\ UNCHANGED inventory_items
            /\ last' = [op |-> "insert_inventory", ok |-> FALSE, id |-> uid]
    /\ UNCHANGED <<users, memberships, control_relationships, transactions,
                   buyer_immunity, clock, db, locals>>

DeleteInventory(i) ==
    /\ i \in inventory_items
    /\ inventory_items' = inventory_items \ {i}
    /\ last' = [op |-> "delete_inventory", ok |-> TRUE, id |-> i.user_id]
    /\ UNCHANGED <<users, memberships, control_relationships, transactions,
                   buyer_immunity, clock, db, locals>>

\* Primary key id and foreign key user_id.
TransactionAccepted(id, uid) ==
    /\ Exists(uid)
    /\ \A x \in transactions : x.id # id

InsertTransaction(id, uid) ==
    /\ NumRows < MaxRows
    /\ IF TransactionAccepted(id, uid)
       THEN /\ transactions' = transactions \cup
                   {[id |-> id, user_id |-> uid]}
            /\ last' = [op |-> "insert_transaction", ok |-> TRUE, id |-> uid]
       ELSE /\ UNCHANGED transactions
            /\ last' = [op |-> "insert_transaction", ok |-> FALSE, id |-> uid]
    /\ UNCHANGED <<users, memberships, inventory_items,
                   control_relationships, buyer_immunity, clock, db, locals>>

DeleteTransaction(x) ==
    /\ x \in transactions
    /\ transactions' = transactions \ {x}
    /\ last' = [op |-> "delete_transaction", ok |-> TRUE, id |-> x.user_id]
    /\ UNCHANGED <<users, memberships, inventory_items,
                   control_relationships, buyer_immunity, clock, db, locals>>

\* Primary key (target_id, buyer_id), both foreign keys to users.id.
ImmunityAccepted(t, b) ==
    /\ Exists(t)
    /\ Exists(b)
    /\ <<t, b>> \notin buyer_immunity

InsertImmunity(t, b) ==
    /\ NumRows < MaxRows
    /\ IF ImmunityAccepted(t, b)
       THEN /\ buyer_immunity' = buyer_immunity \cup {<<t, b>>}
            /\ last' = [op |-> "insert_immunity", ok |-> TRUE, id |-> t]
       ELSE /\ UNCHANGED buyer_immunity
            /\ last' = [op |-> "insert_immunity", ok |-> FALSE, id |-> t]
    /\ UNCHANGED <<users, memberships, inventory_items,
                   control_relationships, transactions, clock, db, locals>>

DeleteImmunity(t, b) ==
    /\ <<t, b>> \in buyer_immunity
    /\ buyer_immunity' = buyer_immunity \ {<<t, b>>}
    /\ last' = [op |-> "delete_immunity", ok |-> TRUE, id |-> t]
    /\ UNCHANGED <<users, memberships, inventory_items,
                   control_relationships, transactions, clock, db, locals>>

NextSchema ==
    \/ \E id \in SchemaIds : InsertUser(id)
    \/ \E id \in SchemaIds : DeleteUser(id)
    \/ \E id \in SchemaIds : InsertMembership(id)
    \/ \E id \in SchemaIds : DeleteMembership(id)
    \/ \E c, t \in SchemaIds : InsertControl(c, t)
    \/ \E c, t \in SchemaIds : DeleteControl(c, t)
    \/ \E id \in RowIds, uid \in SchemaIds, ty \in ItemTypes :
          InsertInventory(id, uid, ty)
    \/ \E i \in inventory_items : DeleteInventory(i)
    \/ \E id \in RowIds, uid \in SchemaIds : InsertTransaction(id, uid)
    \/ \E x \in transactions : DeleteTransaction(x)
    \/ \E t, b \in SchemaIds : InsertImmunity(t, b)
    \/ \E t, b \in SchemaIds : DeleteImmunity(t, b)

SpecSchema == InitSchema /\ [][NextSchema]_vars

(* ------------------------------- claims -------------------------------- *)
Min(a, b) == IF a < b THEN a ELSE b

\* The request's response is a leaderboard (HTTP 200 with a users list).
IsBoard(r) == resp[r].code = 200 /\ "users" \in DOMAIN resp[r].body
Listed(r) == resp[r].body.users

\* The users of the table the query read that the response lists.
ListedIds(r) ==
    {id \in DOMAIN snap[r] :
        \E i \in 1..Len(Listed(r)) :
            Listed(r)[i].username = snap[r][id].username}

\* The row of the table the query read behind the i-th entry.
RowAt(r, i) ==
    snap[r][CHOOSE id \in DOMAIN snap[r] :
                snap[r][id].username = Listed(r)[i].username]

InWindow(row, cutoff) ==
    row.updated_at # NULL /\ row.updated_at[1] >= cutoff

EligibleIds(r) ==
    {id \in DOMAIN snap[r] :
        /\ InWindow(snap[r][id], recent_time[r])
        /\ snap[r][id].is_eliminated = <<FALSE>>}

\* C1: for a window of W >= 0 minutes, every user a leaderboard response
\* lists was updated at or after now - W and is not eliminated.
C1_ListedAreRecentAndNotEliminated ==
    \A r \in Reqs :
        (IsBoard(r) /\ minutes[r] >= 0) =>
            \A i \in 1..Len(Listed(r)) :
                \E id \in DOMAIN snap[r] :
                    /\ snap[r][id].username = Listed(r)[i].username
                    /\ InWindow(snap[r][id], now[r] - minutes[r])
                    /\ snap[r][id].is_eliminated = <<FALSE>>

\* C1 witness: a returned leaderboard that lists users and leaves out an
\* eliminated user with the highest points, updated within the window.
C1_Witness ==
    \E r \in Reqs :
        /\ pc[r] = "done"
        /\ IsBoard(r)
        /\ minutes[r] >= 0
        /\ Len(Listed(r)) > 0
        /\ \E id \in DOMAIN snap[r] \ ListedIds(r) :
              /\ snap[r][id].is_eliminated = <<TRUE>>
              /\ InWindow(snap[r][id], now[r] - minutes[r])
              /\ snap[r][id].points = <<4 * BulkN + 4>>

\* C2: a leaderboard response lists exactly min(25, n) of the n eligible
\* users, no eligible user left out has strictly more points than a listed
\* one, and the positions are 1..k in list order, position 1 the highest.
C2_TopByPoints ==
    \A r \in Reqs :
        IsBoard(r) =>
            LET L == Listed(r)
                E == EligibleIds(r)
                ids == ListedIds(r)
            IN /\ Len(L) = Min(TopLimit, Cardinality(E))
               /\ ids \subseteq E
               /\ Cardinality(ids) = Len(L)
               /\ \A e \in E \ ids : \A l \in ids :
                     ~(/\ snap[r][e].points # NULL
                       /\ snap[r][l].points # NULL
                       /\ snap[r][e].points[1] > snap[r][l].points[1])
               /\ \A i \in 1..Len(L) :
                     /\ L[i].position = i
                     /\ RowAt(r, 1).points[1] >= RowAt(r, i).points[1]

\* C2 witness: more than 25 users were eligible and 25 are listed.
C2_Witness ==
    \E r \in Reqs :
        /\ pc[r] = "done"
        /\ IsBoard(r)
        /\ Cardinality(EligibleIds(r)) > TopLimit
        /\ Len(Listed(r)) = TopLimit

\* C3: the users list of a leaderboard response is in non-increasing order
\* of stored points and has at most 25 entries.
C3_SortedAndLimited ==
    \A r \in Reqs :
        IsBoard(r) =>
            /\ Len(Listed(r)) <= TopLimit
            /\ \A i \in 1..(Len(Listed(r)) - 1) :
                  RowAt(r, i).points[1] >= RowAt(r, i + 1).points[1]

\* C3 witness: a returned list of 25 whose first and last entries differ in
\* stored points and which holds two entries with equal points.
C3_Witness ==
    \E r \in Reqs :
        /\ pc[r] = "done"
        /\ IsBoard(r)
        /\ Len(Listed(r)) = TopLimit
        /\ RowAt(r, 1).points[1] > RowAt(r, TopLimit).points[1]
        /\ \E i \in 1..(TopLimit - 1) :
              RowAt(r, i).points = RowAt(r, i + 1).points

\* C4: in a successful leaderboard response status is "active" exactly when
\* the users list is non-empty, and when no user was updated within the
\* window the response is "inactive" with an empty list.
C4_StatusIffNonEmpty ==
    \A r \in Reqs :
        IsBoard(r) =>
            /\ resp[r].body.status = "active" <=> Len(Listed(r)) > 0
            /\ (\A id \in DOMAIN snap[r] :
                    ~InWindow(snap[r][id], recent_time[r]))
               => (resp[r].body.status = "inactive" /\ Listed(r) = <<>>)

\* C4 witness: a returned "inactive" response while the table holds a
\* non-eliminated user who has aged out of the window.
C4_Witness ==
    \E r \in Reqs :
        /\ pc[r] = "done"
        /\ IsBoard(r)
        /\ resp[r].body.status = "inactive"
        /\ \E id \in DOMAIN snap[r] :
              /\ snap[r][id].is_eliminated = <<FALSE>>
              /\ snap[r][id].updated_at # NULL
              /\ snap[r][id].updated_at[1] < recent_time[r]
        /\ \A id \in DOMAIN snap[r] :
              ~InWindow(snap[r][id], recent_time[r])

\* C5: a leaderboard request whose data access failed returns HTTP 500 with
\* only an error field, after a single attempt; a status or test request
\* returns HTTP 200 with its fixed fields whatever the database state.
C5_DataAccessFailure ==
    \A r \in Reqs :
        pc[r] = "done" =>
            /\ (endpoint[r] = "leaderboard"
                /\ exc[r] \in {"ArgumentError", "OperationalError"})
               => /\ resp[r].code = 500
                  /\ DOMAIN resp[r].body = {"error"}
                  /\ nacq[r] <= 1
                  /\ nquery[r] <= 1
            /\ endpoint[r] = "status"
               => /\ resp[r].code = 200
                  /\ DOMAIN resp[r].body = {"status", "timestamp"}
                  /\ resp[r].body.status = "online"
            /\ endpoint[r] = "test"
               => /\ resp[r].code = 200
                  /\ DOMAIN resp[r].body = {"message", "timestamp"}
                  /\ resp[r].body.message = "API is working"

\* C5 witness: with the database down, one request has returned the 500 of
\* a failed query and another has returned from status or test.
C5_Witness ==
    \E r1, r2 \in Reqs :
        /\ db = "down"
        /\ pc[r1] = "done"
        /\ endpoint[r1] = "leaderboard"
        /\ exc[r1] = "OperationalError"
        /\ resp[r1].code = 500
        /\ pc[r2] = "done"
        /\ endpoint[r2] \in {"status", "test"}
        /\ resp[r2].code = 200

\* C6: a request acquires at most one session, a session is open only
\* while its request is being handled, and no session is open once its
\* request has returned.
C6_SessionReleased ==
    \A r \in Reqs :
        /\ nacq[r] <= 1
        /\ nacq[r] = 1 <=> session[r] # "unbound"
        /\ pc[r] = "done" => session[r] # "open"
        /\ session[r] = "open" =>
              pc[r] \in {"acquired", "cutoff", "queried", "except", "finally"}

\* C6 witness: one request has returned after a failure while formatting,
\* its session closed, while another request holds its session open.
C6_Witness ==
    \E r1, r2 \in Reqs :
        /\ pc[r1] = "done"
        /\ exc[r1] = "TypeError"
        /\ session[r1] = "closed"
        /\ session[r2] = "open"

\* C7: whenever the session was acquired and the query returned its rows,
\* the leaderboard handler returns HTTP 200 with status, users and
\* timestamp.
C7_OnlyDataAccessFails ==
    \A r \in Reqs :
        (/\ pc[r] = "done"
         /\ endpoint[r] = "leaderboard"
         /\ nacq[r] = 1
         /\ nquery[r] = 1
         /\ exc[r] # "OperationalError")
        => /\ resp[r].code = 200
           /\ DOMAIN resp[r].body = {"status", "users", "timestamp"}

\* Every dependent row references users that exist.
RefIntegrity ==
    /\ \A m \in memberships : Exists(m)
    /\ \A i \in inventory_items : Exists(i.user_id)
    /\ \A c \in control_relationships : Exists(c[1]) /\ Exists(c[2])
    /\ \A x \in transactions : Exists(x.user_id)
    /\ \A b \in buyer_immunity : Exists(b[1]) /\ Exists(b[2])

\* C8: deleting a user removes its membership, its inventory items, the
\* control relationships it is controller or target of and the immunity
\* grants it is the target of, and no dependent row references a user
\* that does not exist.
C8_DeleteCascades ==
    /\ RefIntegrity
    /\ last.op = "delete_user" =>
          /\ ~Exists(last.id)
          /\ last.id \notin memberships
          /\ \A i \in inventory_items : i.user_id # last.id
          /\ \A c \in control_relationships :
                c[1] # last.id /\ c[2] # last.id
          /\ \A b \in buyer_immunity : b[1] # last.id

\* C8 witness: a user was deleted that was the target of a control
\* relationship and had one more dependent row.
C8_Witness ==
    /\ last.op = "delete_user"
    /\ last.had.target
    /\ \/ last.had.membership
       \/ last.had.inventory
       \/ last.had.immune
       \/ last.had.controller

\* C9: a target never has two controllers, and inserting a control
\* relationship for a target that has one is rejected and changes nothing.
C9_OneControllerPerTarget ==
    /\ [](\A c1, c2 \in control_relationships : c1[2] = c2[2] => c1 = c2)
    /\ [][(/\ last'.op = "insert_control"
           /\ \E e \in control_relationships : e[2] = last'.target)
          => (/\ last'.ok = FALSE
              /\ control_relationships' = control_relationships)]_vars

\* C9 witness: an insert was rejected for a target controlled by another
\* existing controller than the one offered.
C9_Witness ==
    /\ last.op = "insert_control"
    /\ last.ok = FALSE
    /\ Exists(last.controller)
    /\ \E e \in control_relationships :
          e[2] = last.target /\ e[1] # last.controller

\* C10: no step of a request handler changes a stored row.
C10_ReadsLeaveStoreUnchanged ==
    [][locals' # locals => store' = store]_vars

\* C10 witness: a returned leaderboard lists a user who has since aged out
\* of the default window, the stored row as it was when read.
C10_Witness ==
    \E r \in Reqs :
        /\ pc[r] = "done"
        /\ IsBoard(r)
        /\ \E id \in ListedIds(r) :
              /\ id \in DOMAIN users
              /\ users[id] = snap[r][id]
              /\ users[id].updated_at[1] < clock - DefaultMinutes

====
